---- MODULE Spec2Model ----
(***************************************************************************)
(* Model of the Monetag server-to-server postback endpoint                 *)
(* (GET /monetag-reward) of the kkoin-bot-server: the secret check, the    *)
(* parameter validation, and the Firestore transaction that creates a      *)
(* user profile or increments its points.                                  *)
(*                                                                         *)
(* db.runTransaction is modelled by its contract: an attempt reads the     *)
(* document, the closure stages one write, and the commit applies it       *)
(* atomically if the document is unchanged since the read; otherwise the   *)
(* closure is run again.  A transaction that rejects has written nothing.  *)
(* The fields calls, attempts, sawAbsent and branch of a request, and      *)
(* initLedger, are history variables: no action reads them.                *)
(*                                                                         *)
(* A handler that throws outside its try block is left to the framework:   *)
(* the request is never answered, or the framework answers it itself.      *)
(*                                                                         *)
(* JavaScript values are tagged records: Undefined, Str(s), Num(n), NaN.   *)
(* The points parameter is a sequence of one-character strings so that     *)
(* parseInt is computed character by character as the engine does.         *)
(***************************************************************************)
EXTENDS Integers, Sequences, FiniteSets, TLC

VARIABLES
    ledger,      \* user id -> the profile document, or Absent
    ver,         \* user id -> update counter of the document (Firestore updateTime)
    today,       \* the server-local calendar day (new Date())
    req,         \* request id -> state of that request's handler
    initLedger,  \* the ledger before any postback (history variable)
    boot         \* the process: which program, its environment, how far it started

vars == <<ledger, ver, today, req, initLedger, boot>>

----------------------------------------------------------------------------
\* Bounds of the model
NReq == 2          \* number of postback requests in a run
MaxDay == 1        \* number of midnights that may pass during a run
MaxLen == 3        \* longest points string the single-request specification tries

Reqs == 1..NReq
Users == {"u1", "u2"}

----------------------------------------------------------------------------
\* JavaScript values
Undefined == [kind |-> "undefined"]
NaN == [kind |-> "NaN"]
Str(s) == [kind |-> "string", val |-> s]
Num(n) == [kind |-> "number", val |-> n]

\* process.env.REWARD_ENDPOINT_SECRET (non-empty, or the process has exited)
REWARD_ENDPOINT_SECRET == Str("s3cret")

Absent == [exists |-> FALSE]

\* new Date().toDateString() of day d
ToDateString(d) == <<"date", d>>

----------------------------------------------------------------------------
\* parseInt(points), with no radix argument

DigitVal ==
    [c \in {"0","1","2","3","4","5","6","7","8","9","a","b","c","d","e","f"} |->
        CASE c = "0" -> 0 [] c = "1" -> 1 [] c = "2" -> 2 [] c = "3" -> 3
          [] c = "4" -> 4 [] c = "5" -> 5 [] c = "6" -> 6 [] c = "7" -> 7
          [] c = "8" -> 8 [] c = "9" -> 9 [] c = "a" -> 10 [] c = "b" -> 11
          [] c = "c" -> 12 [] c = "d" -> 13 [] c = "e" -> 14 [] c = "f" -> 15]

IsDigit(c, radix) == c \in DOMAIN DigitVal /\ DigitVal[c] < radix

RECURSIVE StripLeadingWS(_)
StripLeadingWS(s) ==
    IF s # <<>> /\ Head(s) = " " THEN StripLeadingWS(Tail(s)) ELSE s

\* the longest prefix of s made of digits of the radix
RECURSIVE DigitPrefix(_, _)
DigitPrefix(s, radix) ==
    IF s # <<>> /\ IsDigit(Head(s), radix)
    THEN <<Head(s)>> \o DigitPrefix(Tail(s), radix)
    ELSE <<>>

\* the number a digit string denotes in the radix
RECURSIVE DigitsValue(_, _)
DigitsValue(ds, radix) ==
    IF ds = <<>> THEN 0
    ELSE DigitsValue(SubSeq(ds, 1, Len(ds) - 1), radix) * radix + DigitVal[ds[Len(ds)]]

ParseInt(v) ==
    IF v.kind = "undefined" THEN NaN   \* ToString(undefined) has no leading digit
    ELSE LET s0 == StripLeadingWS(v.val)
             neg == s0 # <<>> /\ Head(s0) = "-"
             s1 == IF s0 # <<>> /\ Head(s0) \in {"-", "+"} THEN Tail(s0) ELSE s0
             hex == Len(s1) >= 2 /\ s1[1] = "0" /\ s1[2] \in {"x", "X"}
             radix == IF hex THEN 16 ELSE 10
             s2 == IF hex THEN SubSeq(s1, 3, Len(s1)) ELSE s1
             ds == DigitPrefix(s2, radix)
         IN  IF ds = <<>> THEN NaN
             ELSE Num((IF neg THEN -1 ELSE 1) * DigitsValue(ds, radix))

isNaN(x) == x.kind = "NaN"

----------------------------------------------------------------------------
\* The checks of the handler

\* faulty variant: an absent secret passes
SecretOkLoose(q) == q.secret = REWARD_ENDPOINT_SECRET \/ q.secret = Undefined

\* secret !== REWARD_ENDPOINT_SECRET is false
SecretOk(q) == q.secret = REWARD_ENDPOINT_SECRET

\* !user_id
Falsy(v) == v.kind = "undefined" \/ (v.kind = "string" /\ v.val = "")

\* faulty variant: the sign of rewardPoints is not checked
ParamsOkNoSign(q, rewardPoints) ==
    ~(Falsy(q.user_id) \/ isNaN(rewardPoints))

\* !(!user_id || isNaN(rewardPoints) || rewardPoints <= 0)
ParamsOk(q, rewardPoints) ==
    ~(Falsy(q.user_id) \/ isNaN(rewardPoints) \/ rewardPoints.val <= 0)

----------------------------------------------------------------------------
\* Requests

NoQuery == [secret |-> Undefined, user_id |-> Undefined, points |-> Undefined]

NewReq ==
    [pc |-> "new", query |-> NoQuery, rewardPoints |-> NaN,
     calls |-> 0, attempts |-> 0, snapVer |-> 0, sawAbsent |-> FALSE,
     write |-> [op |-> "none"], closureDay |-> 0, branch |-> "none",
     status |-> 0, body |-> "", sent |-> 0, log |-> <<>>]

Query(s, u, p) == [secret |-> s, user_id |-> u, points |-> p]

QuerySet(S, U, P) == {Query(s, u, p) : s \in S, u \in U, p \in P}

\* the postbacks the concurrent specification sends
Queries ==
         QuerySet({REWARD_ENDPOINT_SECRET}, {Str("u1")}, {Str(<<"1">>), Str(<<"2">>)})
    \cup QuerySet({REWARD_ENDPOINT_SECRET}, {Str("u2")}, {Str(<<"2">>)})
    \cup QuerySet({Str("wrong")}, {Str("u1")}, {Str(<<"2">>)})
    \cup QuerySet({Undefined}, {Undefined}, {Str(<<"a">>)})
    \cup QuerySet({REWARD_ENDPOINT_SECRET}, {Str("")}, {Str(<<"2">>)})
    \cup QuerySet({REWARD_ENDPOINT_SECRET}, {Str("u1")}, {Str(<<"-", "1">>)})
    \cup QuerySet({REWARD_ENDPOINT_SECRET}, {Str("a/b")}, {Str(<<"2">>)})

\* the postbacks the single-request specification sends: every combination
Alphabet == {" ", "-", "0", "1", "9", ".", "a", "x"}
PointStrings == UNION {[1..n -> Alphabet] : n \in 0..MaxLen}
AllQueries ==
    QuerySet({REWARD_ENDPOINT_SECRET, Str("wrong"), Str(""), Undefined},
             {Undefined, Str(""), Str("u1"), Str("u2")},
             {Undefined} \cup {Str(s) : s \in PointStrings})

\* collection('users').doc(user_id) throws: with a '/' in user_id the path
\* artifacts/APP_ID/users/a/b has an odd number of components and names no
\* document
DocThrows(v) == v.kind = "string" /\ v.val \in {"a/b"}

\* faulty variant: every transaction addresses the same document
UserOfShared(r) == "u1"

\* the user a request's transaction addresses (userDocRef)
UserOf(r) == req[r].query.user_id.val

----------------------------------------------------------------------------
\* The documents the transaction closure writes

\* faulty variant: the ad that triggered the creation is not counted
NewProfileNoAdCount(u, rewardPoints, day) ==
    [exists |-> TRUE, userId |-> u, points |-> rewardPoints, referrals |-> 0,
     claimedTasks |-> <<>>, lastAdWatchDate |-> ToDateString(day),
     adsWatchedToday |-> 0, processingWithdrawal |-> FALSE]

\* faulty variant: the profile is created without the reward
NewProfileNoReward(u, rewardPoints, day) ==
    [exists |-> TRUE, userId |-> u, points |-> 0, referrals |-> 0,
     claimedTasks |-> <<>>, lastAdWatchDate |-> ToDateString(day),
     adsWatchedToday |-> 1, processingWithdrawal |-> FALSE]

\* the object handed to transaction.set
NewProfile(u, rewardPoints, day) ==
    [exists |-> TRUE, userId |-> u, points |-> rewardPoints, referrals |-> 0,
     claimedTasks |-> <<>>, lastAdWatchDate |-> ToDateString(day),
     adsWatchedToday |-> 1, processingWithdrawal |-> FALSE]

\* faulty variant: the credit path also touches adsWatchedToday
IncrementAndCountAd(doc, n) ==
    [doc EXCEPT !.points = @ + n, !.adsWatchedToday = @ + 1]

\* transaction.update(ref, {points: FieldValue.increment(n)}) applied to doc
Increment(doc, n) == [doc EXCEPT !.points = @ + n]

\* faulty variant: no branch on userDoc.exists
ClosureAlwaysSet(r, doc) ==
    [op |-> "set", doc |-> NewProfile(UserOf(r), req[r].rewardPoints.val, today)]

\* faulty variant: a repeat of an already credited postback adds nothing
ClosureSkipRepeat(r, doc) ==
    IF ~doc.exists
    THEN [op |-> "set", doc |-> NewProfile(UserOf(r), req[r].rewardPoints.val, today)]
    ELSE IF \E s \in Reqs \ {r} : req[s].query = req[r].query /\ req[s].branch # "none"
    THEN [op |-> "update", inc |-> 0]
    ELSE [op |-> "update", inc |-> req[r].rewardPoints.val]

\* what the closure stages after reading doc
Closure(r, doc) ==
    IF ~doc.exists
    THEN [op |-> "set", doc |-> NewProfile(UserOf(r), req[r].rewardPoints.val, today)]
    ELSE [op |-> "update", inc |-> req[r].rewardPoints.val]

\* the document after a staged write commits
Apply(w, doc) == IF w.op = "set" THEN w.doc ELSE Increment(doc, w.inc)

\* faulty variant: a plain read-then-write, no isolation
NeverConflict(r) == FALSE

\* the document changed since this attempt read it
Conflict(r) == ver[UserOf(r)] # req[r].snapVer

\* faulty variant: a failure after staging still writes
AbortedPartial(r) ==
    IF req[r].pc = "commit"
    THEN [ledger EXCEPT ![UserOf(r)] = Apply(req[r].write, @)]
    ELSE ledger

\* the ledger after the transaction of r fails: staged writes are dropped
Aborted(r) == ledger

----------------------------------------------------------------------------
\* A profile written earlier by the other write paths of the application
ExistingProfile(u) ==
    [exists |-> TRUE, userId |-> u, points |-> 5, referrals |-> 2,
     claimedTasks |-> <<"t1">>, lastAdWatchDate |-> ToDateString(-1),
     adsWatchedToday |-> 3, processingWithdrawal |-> TRUE]

\* the environment variables the programs read
EnvNames == {"BOT_TOKEN", "WEB_APP_URL", "REWARD_ENDPOINT_SECRET", "FIREBASE_SERVICE_KEY"}

\* process.env values: unset, set to the empty string, set
EnvValues == {Undefined, Str(""), Str("set")}

\* faulty variant: the postback secret is not among the values checked
EnvCompleteNoSecret(b) ==
    IF b.program = "server"
    THEN \A k \in EnvNames \ {"REWARD_ENDPOINT_SECRET"} : ~Falsy(b.env[k])
    ELSE ~Falsy(b.env["BOT_TOKEN"]) /\ ~Falsy(b.env["WEB_APP_URL"])

\* the check for critical variables: the postback server needs all four,
\* the bot-only program of index.js the first two
EnvComplete(b) ==
    IF b.program = "server"
    THEN \A k \in EnvNames : ~Falsy(b.env[k])
    ELSE ~Falsy(b.env["BOT_TOKEN"]) /\ ~Falsy(b.env["WEB_APP_URL"])

\* the postback server, fully configured, started and listening
Serving ==
    [program |-> "server", env |-> [k \in EnvNames |-> Str("set")],
     pc |-> "listening", bot |-> TRUE]

\* the ledger, the clock and the requests when the process starts
InitData ==
    /\ ledger \in {l \in [Users -> {Absent} \cup {ExistingProfile(u) : u \in Users}] :
                      \A u \in Users : l[u].exists => l[u].userId = u}
    /\ initLedger = ledger
    /\ ver = [u \in Users |-> 0]
    /\ today = 0
    /\ req = [r \in Reqs |-> NewReq]

Init == boot = Serving /\ InitData

\* the state of an attempt (snapshot version, staged write, the closure's
\* date) is dropped when the attempt ends
Discard(q) == [q EXCEPT !.snapVer = 0, !.write = [op |-> "none"], !.closureDay = 0]

\* what becomes of a request whose async handler throws outside the try
\* block: the rejected promise is ignored and the request is never answered,
\* or the framework's own error handler logs it and answers 500
Unhandled(got) ==
    {[got EXCEPT !.pc = "crashed"],
     [got EXCEPT !.log = Append(@, "unhandled"), !.status = 500,
                 !.body = "Internal Server Error", !.sent = @ + 1, !.pc = "done"]}

\* faulty variant: the parameters are validated before the secret
HandleParamsFirst(r, q) ==
    /\ boot.pc = "listening"
    /\ req[r].pc = "new"
    /\ LET rewardPoints == ParseInt(q.points)
           got == [req[r] EXCEPT !.query = q, !.rewardPoints = rewardPoints]
       IN  \E res \in
               IF ~ParamsOk(q, rewardPoints)
               THEN {[got EXCEPT !.status = 400, !.body = "Invalid parameters.",
                                 !.sent = @ + 1, !.pc = "done"]}
               ELSE IF ~SecretOk(q)
               THEN {[got EXCEPT !.log = Append(@, "warn"), !.status = 403,
                                 !.body = "Invalid secret.", !.sent = @ + 1,
                                 !.pc = "done"]}
               ELSE IF DocThrows(q.user_id)
               THEN Unhandled(got)
               ELSE {[got EXCEPT !.calls = @ + 1, !.pc = "txn"]} :
               req' = [req EXCEPT ![r] = res]
    /\ UNCHANGED <<ledger, ver, today, initLedger, boot>>

\* lines 100-118: the handler up to the call of db.runTransaction
Handle(r, q) ==
    /\ boot.pc = "listening"
    /\ req[r].pc = "new"
    /\ LET rewardPoints == ParseInt(q.points)
           got == [req[r] EXCEPT !.query = q, !.rewardPoints = rewardPoints]
       IN  \E res \in
               IF ~SecretOk(q)
               THEN {[got EXCEPT !.log = Append(@, "warn"), !.status = 403,
                                 !.body = "Invalid secret.", !.sent = @ + 1,
                                 !.pc = "done"]}
               ELSE IF ~ParamsOk(q, rewardPoints)
               THEN {[got EXCEPT !.status = 400, !.body = "Invalid parameters.",
                                 !.sent = @ + 1, !.pc = "done"]}
               ELSE IF DocThrows(q.user_id)
               THEN Unhandled(got)
               ELSE {[got EXCEPT !.calls = @ + 1, !.pc = "txn"]} :
               req' = [req EXCEPT ![r] = res]
    /\ UNCHANGED <<ledger, ver, today, initLedger, boot>>

\* a postback arrives; requests are numbered in order of arrival
Receive(r) ==
    /\ req[r].pc = "new"
    /\ \A s \in Reqs : s < r => req[s].pc # "new"
    /\ \E q \in Queries : Handle(r, q)

\* lines 123-148: one attempt of the closure: transaction.get, then the
\* branch on userDoc.exists stages a set or an update
TxnRead(r) ==
    /\ req[r].pc = "txn"
    /\ LET doc == ledger[UserOf(r)]
       IN  req' = [req EXCEPT ![r] =
               [@ EXCEPT !.attempts = @ + 1,
                         !.snapVer = ver[UserOf(r)],
                         !.sawAbsent = IF req[r].attempts = 0 THEN ~doc.exists ELSE @,
                         !.write = Closure(r, doc),
                         !.closureDay = today,
                         !.log = Append(@, IF doc.exists THEN "rewarded" ELSE "created"),
                         !.pc = "commit"]]
    /\ UNCHANGED <<ledger, ver, today, initLedger, boot>>

\* the commit of an attempt: applied atomically if the document is as read,
\* otherwise the closure is run again
TxnCommit(r) ==
    /\ req[r].pc = "commit"
    /\ IF Conflict(r)
       THEN /\ req' = [req EXCEPT ![r] = [Discard(@) EXCEPT !.pc = "txn"]]
            /\ UNCHANGED <<ledger, ver>>
       ELSE /\ ledger' = [ledger EXCEPT ![UserOf(r)] = Apply(req[r].write, @)]
            /\ ver' = [ver EXCEPT ![UserOf(r)] = @ + 1]
            /\ req' = [req EXCEPT ![r] =
                   [Discard(@) EXCEPT
                       !.branch = IF req[r].write.op = "set" THEN "create" ELSE "update",
                       !.pc = "committed"]]
    /\ UNCHANGED <<today, initLedger, boot>>

\* runTransaction rejects (contention after the last attempt, connectivity,
\* timeout): nothing staged is written
TxnFail(r) ==
    /\ req[r].pc \in {"txn", "commit"}
    /\ ledger' = Aborted(r)
    /\ req' = [req EXCEPT ![r] = [Discard(@) EXCEPT !.pc = "failed"]]
    /\ UNCHANGED <<ver, today, initLedger, boot>>

\* faulty variant: the transaction is not awaited before the response
Respond200Early(r) ==
    /\ req[r].pc \in {"commit", "committed"}
    /\ req' = [req EXCEPT ![r] =
           [@ EXCEPT !.status = 200, !.body = "Reward processed.", !.sent = @ + 1,
                     !.pc = "done"]]
    /\ UNCHANGED <<ledger, ver, today, initLedger, boot>>

\* line 152: after the await
Respond200(r) ==
    /\ req[r].pc = "committed"
    /\ req' = [req EXCEPT ![r] =
           [@ EXCEPT !.status = 200, !.body = "Reward processed.", !.sent = @ + 1,
                     !.pc = "done"]]
    /\ UNCHANGED <<ledger, ver, today, initLedger, boot>>

\* lines 154-158: the catch block
Respond500(r) ==
    /\ req[r].pc = "failed"
    /\ req' = [req EXCEPT ![r] =
           [@ EXCEPT !.log = Append(@, "error"), !.status = 500,
                     !.body = "Server Error during reward transaction.",
                     !.sent = @ + 1, !.pc = "done"]]
    /\ UNCHANGED <<ledger, ver, today, initLedger, boot>>

\* midnight passes
Tick ==
    /\ today < MaxDay
    /\ today' = today + 1
    /\ UNCHANGED <<ledger, ver, req, initLedger, boot>>

Next ==
    \/ \E r \in Reqs : Receive(r)
    \/ \E r \in Reqs : TxnRead(r)
    \/ \E r \in Reqs : TxnCommit(r)
    \/ \E r \in Reqs : TxnFail(r)
    \/ \E r \in Reqs : Respond200(r)
    \/ \E r \in Reqs : Respond500(r)
    \/ Tick

Spec == Init /\ [][Next]_vars

\* one postback alone, with every combination of parameters
ReceiveAny ==
    /\ req[1].pc = "new"
    /\ \E q \in AllQueries : Handle(1, q)

NextSingle ==
    \/ ReceiveAny
    \/ TxnRead(1)
    \/ TxnCommit(1)
    \/ TxnFail(1)
    \/ Respond200(1)
    \/ Respond500(1)
    \/ Tick

SpecSingle == Init /\ [][NextSingle]_vars

----------------------------------------------------------------------------
\* Process start

\* lines 25-31 (index.js 25-31): process.exit(1) unless the environment is complete
CheckEnv ==
    /\ boot.pc = "start"
    /\ boot' = [boot EXCEPT !.pc = IF EnvComplete(boot) THEN "configured" ELSE "exited"]
    /\ UNCHANGED <<ledger, ver, today, req, initLedger>>

\* lines 36-78 (index.js 34-77): the database client, then bot.launch()
LaunchBot ==
    /\ boot.pc = "configured"
    /\ boot' = [boot EXCEPT !.pc = "launched", !.bot = TRUE]
    /\ UNCHANGED <<ledger, ver, today, req, initLedger>>

\* lines 86-169: the routes, then app.listen(PORT); index.js has no HTTP server
Listen ==
    /\ boot.pc = "launched" /\ boot.program = "server"
    /\ boot' = [boot EXCEPT !.pc = "listening"]
    /\ UNCHANGED <<ledger, ver, today, req, initLedger>>

\* either program started in any environment
InitBoot ==
    /\ boot \in {[program |-> p, env |-> e, pc |-> "start", bot |-> FALSE] :
                    p \in {"server", "bot"}, e \in [EnvNames -> EnvValues]}
    /\ InitData

NextBoot ==
    \/ CheckEnv
    \/ LaunchBot
    \/ Listen
    \/ Receive(1)
    \/ TxnRead(1)
    \/ TxnCommit(1)
    \/ TxnFail(1)
    \/ Respond200(1)
    \/ Respond500(1)

SpecBoot == InitBoot /\ [][NextBoot]_vars

----------------------------------------------------------------------------
\* Vocabulary of the properties

\* the handler of r called db.runTransaction
Started(r) == req[r].calls > 0

\* the transaction of r addresses the profile of u
StartedFor(r, u) == Started(r) /\ req[r].query.user_id = Str(u)

\* the transaction of r has committed
Committed(r) == req[r].branch # "none"

Answered(r) == req[r].pc = "done"

Points(u) == IF ledger[u].exists THEN ledger[u].points ELSE 0

InitPoints(u) == IF initLedger[u].exists THEN initLedger[u].points ELSE 0

RECURSIVE SumRewards(_)
SumRewards(S) ==
    IF S = {} THEN 0
    ELSE LET r == CHOOSE x \in S : TRUE
         IN  req[r].rewardPoints.val + SumRewards(S \ {r})

----------------------------------------------------------------------------
\* C1. No lost updates: whatever the interleaving of reads, commits and
\* retries, a profile's points is the balance before the postbacks (0 if the
\* profile was absent) plus the sum of the rewards of the postbacks for that
\* user whose transaction has committed.
C1_NoLostUpdates ==
    \A u \in Users :
        Points(u) = InitPoints(u)
                    + SumRewards({r \in Reqs : StartedFor(r, u) /\ Committed(r)})

\* every request credited 2 to the absent u1, one of them after a retry
C1_Witness ==
    /\ ~initLedger["u1"].exists
    /\ \A r \in Reqs : StartedFor(r, "u1") /\ Committed(r) /\ req[r].rewardPoints = Num(2)
    /\ \E r \in Reqs : req[r].attempts >= 2
    /\ ledger["u1"].points = 2 * NReq

\* C2. Exactly once per call: when every issued request has been answered, each
\* user's points is the initial balance plus the rewards of exactly the requests
\* for that user answered 200, each counted once however many times its closure
\* ran; requests answered 403, 400 or 500 contribute nothing, and a profile
\* exists only if it did initially or some request for it was answered 200.
C2_ExactlyOncePerCall ==
    (\A r \in Reqs : req[r].pc \in {"new", "done"}) =>
        \A u \in Users :
            LET ok == {r \in Reqs : Answered(r) /\ req[r].status = 200
                                     /\ req[r].query.user_id = Str(u)}
            IN  /\ Points(u) = InitPoints(u) + SumRewards(ok)
                /\ ledger[u].exists <=> (initLedger[u].exists \/ ok # {})

\* all answered: one 200 whose closure ran twice, on a profile that existed
C2_Witness ==
    /\ \A r \in Reqs : Answered(r)
    /\ initLedger["u1"].exists
    /\ \E r \in Reqs : /\ req[r].status = 200 /\ req[r].attempts >= 2
                       /\ req[r].query.user_id = Str("u1")

----------------------------------------------------------------------------
\* What a points string denotes, read as a whole (not as parseInt reads it):
\* surrounding white space is ignored, a number is a signed decimal literal
\* with an optional fraction, or a hexadecimal literal 0x...

RECURSIVE StripTrailingWS(_)
StripTrailingWS(s) ==
    IF s # <<>> /\ s[Len(s)] = " "
    THEN StripTrailingWS(SubSeq(s, 1, Len(s) - 1)) ELSE s

Trim(s) == StripTrailingWS(StripLeadingWS(s))

Unsigned(s) == IF s # <<>> /\ Head(s) \in {"+", "-"} THEN Tail(s) ELSE s

AllDigits(s, radix) == \A i \in 1..Len(s) : IsDigit(s[i], radix)

IsHexLiteral(s) ==
    Len(s) >= 3 /\ s[1] = "0" /\ s[2] \in {"x", "X"} /\ AllDigits(SubSeq(s, 3, Len(s)), 16)

\* digits, optionally followed by a point and digits; at least one digit
IsDecimalLiteral(s) ==
    \E k \in 0..Len(s) :
        LET int == SubSeq(s, 1, k)
            rest == SubSeq(s, k + 1, Len(s))
        IN  /\ AllDigits(int, 10)
            /\ rest = <<>> \/ (Head(rest) = "." /\ AllDigits(Tail(rest), 10))
            /\ \E i \in 1..Len(s) : IsDigit(s[i], 10)

IsNumeric(s) ==
    LET t == Trim(s) IN t = <<>> \/ IsHexLiteral(t) \/ IsDecimalLiteral(Unsigned(t))

\* a numeric string that denotes a number greater than 0
IsPositiveNumeric(s) ==
    LET t == Trim(s)
    IN  /\ IsNumeric(s)
        /\ t # <<>> /\ Head(t) # "-"
        /\ \E i \in 1..Len(t) :
               /\ t[i] \in DOMAIN DigitVal /\ DigitVal[t[i]] > 0
               /\ IsHexLiteral(t) => i >= 3

\* the digits before the point, if any
IntegerPart(s) ==
    IF \E i \in 1..Len(s) : s[i] = "."
    THEN SubSeq(s, 1, (CHOOSE i \in 1..Len(s) : s[i] = "." /\ \A j \in 1..(i - 1) : s[j] # ".") - 1)
    ELSE s

\* a numeric string that denotes an integer: a hexadecimal literal, or a
\* decimal literal whose fraction, if it has one, is all zeros
IsIntegerLiteral(s) ==
    LET t == Trim(s)
        u == Unsigned(t)
    IN  \/ IsHexLiteral(t)
        \/ /\ IsDecimalLiteral(u)
           /\ \A i \in (Len(IntegerPart(u)) + 2)..Len(u) : u[i] = "0"

IntegerValue(s) ==
    LET t == Trim(s)
    IN  IF IsHexLiteral(t) THEN DigitsValue(SubSeq(t, 3, Len(t)), 16)
        ELSE (IF Head(t) = "-" THEN -1 ELSE 1) * DigitsValue(IntegerPart(Unsigned(t)), 10)

\* the handler of r returned before calling db.runTransaction and the ledger
\* is as it was before the request
NeverReachedLedger(r) ==
    /\ req[r].pc = "done"
    /\ req[r].calls = 0 /\ req[r].attempts = 0
    /\ ledger = initLedger /\ ver = [u \in Users |-> 0]

----------------------------------------------------------------------------
\* C3. A request whose secret is not exactly the configured secret (an absent
\* secret included) is answered 403 'Invalid secret.', whatever its user_id and
\* points; no transaction is started for it and the ledger is unchanged.
C3_InvalidSecretRejected ==
    \A r \in Reqs :
        (req[r].pc # "new" /\ req[r].query.secret # REWARD_ENDPOINT_SECRET) =>
            /\ req[r].status = 403 /\ req[r].body = "Invalid secret."
            /\ NeverReachedLedger(r)

\* a wrong secret with an otherwise valid postback for an existing profile
C3_Witness ==
    \E r \in Reqs :
        /\ req[r].status = 403
        /\ req[r].query = Query(Str("wrong"), Str("u1"), Str(<<"1", "9">>))
        /\ req[r].rewardPoints = Num(19)
        /\ ledger["u1"].exists

\* C4. With a correct secret, a request whose user_id is absent or empty, or
\* whose points is non-numeric, zero or negative, is answered 400 'Invalid
\* parameters.'; no transaction is started and the ledger is unchanged.
C4_InvalidParametersRejected ==
    \A r \in Reqs :
        (/\ req[r].pc # "new"
         /\ req[r].query.secret = REWARD_ENDPOINT_SECRET
         /\ \/ Falsy(req[r].query.user_id)
            \/ req[r].query.points = Undefined
            \/ ~IsPositiveNumeric(req[r].query.points.val)) =>
            /\ req[r].status = 400 /\ req[r].body = "Invalid parameters."
            /\ NeverReachedLedger(r)

\* C5. With a correct secret the validator accepts exactly the requests whose
\* user_id is a non-empty string and whose points is an integer literal
\* greater than 0, and hands that integer to the transaction.
C5_ValidatorAcceptsIntegerLiterals ==
    \A r \in Reqs :
        (req[r].pc # "new" /\ req[r].query.secret = REWARD_ENDPOINT_SECRET) =>
            LET p == req[r].query.points
                valid == /\ ~Falsy(req[r].query.user_id)
                         /\ p # Undefined
                         /\ IsIntegerLiteral(p.val)
                         /\ IntegerValue(p.val) > 0
            IN  /\ Started(r) <=> valid
                /\ ~Started(r) => req[r].status = 400
                /\ Started(r) => req[r].rewardPoints = Num(IntegerValue(p.val))

----------------------------------------------------------------------------
\* the step in which the transaction of r commits
CommitStep(r) == req[r].pc = "commit" /\ req'[r].pc = "committed"

\* the profile the create path is said to leave, dated day
CreatedProfile(r, day) ==
    [exists |-> TRUE, userId |-> req[r].query.user_id.val,
     points |-> req[r].rewardPoints.val, referrals |-> 0, claimedTasks |-> <<>>,
     adsWatchedToday |-> 1, lastAdWatchDate |-> ToDateString(day),
     processingWithdrawal |-> FALSE]

\* C6 as stated. Create path: a commit while no profile exists leaves userId =
\* user_id, points = reward, referrals = 0, claimedTasks empty, adsWatchedToday
\* = 1, processingWithdrawal = false and lastAdWatchDate = the date current at
\* the commit, and the request is answered 200.
C6_CreatePathCurrentDate ==
    /\ [][\A r \in Reqs :
            (CommitStep(r) /\ ~ledger[UserOf(r)].exists) =>
                ledger'[UserOf(r)] = CreatedProfile(r, today)]_vars
    /\ [](\A r \in Reqs : (req[r].branch = "create" /\ Answered(r)) => req[r].status = 200)

\* C6 as amended. The same, with lastAdWatchDate = the date that was current
\* when the closure of the committing attempt ran (a midnight may pass between
\* the closure and the commit).
C6_CreatePath ==
    /\ [][\A r \in Reqs :
            (CommitStep(r) /\ ~ledger[UserOf(r)].exists) =>
                /\ ledger'[UserOf(r)] = CreatedProfile(r, req[r].closureDay)
                /\ req[r].closureDay <= today]_vars
    /\ [](\A r \in Reqs : (req[r].branch = "create" /\ Answered(r)) => req[r].status = 200)

\* a fresh u1 created by a postback of 2 points and answered 200, midnight
\* having passed after the closure ran
C6_Witness ==
    \E r \in Reqs :
        /\ req[r].branch = "create" /\ req[r].status = 200
        /\ ~initLedger["u1"].exists
        /\ today >= 1
        /\ ledger["u1"] = [exists |-> TRUE, userId |-> "u1", points |-> 2, referrals |-> 0,
                           claimedTasks |-> <<>>, adsWatchedToday |-> 1,
                           lastAdWatchDate |-> ToDateString(today - 1),
                           processingWithdrawal |-> FALSE]

\* C7. Credit path frame: a commit against an existing profile raises its
\* points by exactly the reward and leaves every other field as it was; a
\* profile created here therefore keeps adsWatchedToday = 1 however many
\* credits follow.
C7_CreditPathFrame ==
    /\ [][\A r \in Reqs :
            (CommitStep(r) /\ ledger[UserOf(r)].exists) =>
                /\ ledger'[UserOf(r)] =
                       [ledger[UserOf(r)] EXCEPT !.points = @ + req[r].rewardPoints.val]
                /\ \A u \in Users \ {UserOf(r)} : ledger'[u] = ledger[u]]_vars
    /\ [](\A u \in Users :
            (ledger[u].exists /\ ~initLedger[u].exists) => ledger[u].adsWatchedToday = 1)

\* fresh u1: a first postback of 1 then a second of 2 leave 3 points and
\* adsWatchedToday = 1
C7_Witness ==
    /\ ~initLedger["u1"].exists
    /\ \E r, s \in Reqs :
           /\ req[r].branch = "create" /\ req[r].rewardPoints = Num(1)
           /\ req[s].branch = "update" /\ req[s].rewardPoints = Num(2)
           /\ req[s].status = 200
    /\ ledger["u1"].exists /\ ledger["u1"].points = 3 /\ ledger["u1"].adsWatchedToday = 1

\* C8. Creation and first credit are one event: in every state a profile
\* that a postback created holds at least that postback's reward, and a
\* profile that was absent initially exists only through a committed create.
C8_CreateCarriesReward ==
    /\ \A r \in Reqs :
           req[r].branch = "create" =>
               /\ ledger[UserOf(r)].exists
               /\ ledger[UserOf(r)].points >= req[r].rewardPoints.val
    /\ \A u \in Users :
           (ledger[u].exists /\ ~initLedger[u].exists) =>
               \E r \in Reqs : StartedFor(r, u) /\ req[r].branch = "create"

\* the profile just created, not yet acknowledged, while another postback for
\* the same user is between its read and its commit
C8_Witness ==
    \E r, s \in Reqs :
        /\ req[r].branch = "create" /\ req[r].pc = "committed"
        /\ req[s].pc = "commit" /\ StartedFor(s, UserOf(r))
        /\ ledger[UserOf(r)].points = req[r].rewardPoints.val

\* C9. Create/credit race: of the postbacks for one unseen user whose first
\* read found no profile and that committed, exactly one committed through
\* the create branch and each other through the increment branch after at
\* least one retry; a user has at most one committed create, none if the
\* profile existed, and a create never replaces committed points.
C9_CreateCreditRace ==
    \A u \in Users :
        LET raced == {r \in Reqs : StartedFor(r, u) /\ req[r].sawAbsent /\ Committed(r)}
            creators == {r \in Reqs : StartedFor(r, u) /\ req[r].branch = "create"}
        IN  /\ Cardinality(creators) <= 1
            /\ initLedger[u].exists => creators = {}
            /\ raced # {} => Cardinality(raced \cap creators) = 1
            /\ \A r \in raced \ creators :
                   req[r].branch = "update" /\ req[r].attempts >= 2
            /\ creators # {} =>
                   Points(u) = SumRewards({r \in Reqs : StartedFor(r, u) /\ Committed(r)})

\* every request raced on the unseen u1: one created, the others retried and
\* incremented
C9_Witness ==
    /\ ~initLedger["u1"].exists
    /\ \A r \in Reqs : StartedFor(r, "u1") /\ req[r].sawAbsent /\ Committed(r)
    /\ \E r \in Reqs : req[r].branch = "update" /\ req[r].attempts >= 2

\* C10. Failure is all-or-nothing: the step in which a transaction fails
\* changes no document; a failed transaction has not committed and never will;
\* its request is answered 500 'Server Error during reward transaction.'; and
\* the ledger holds only what the committed transactions wrote.
C10_FailureAllOrNothing ==
    /\ [][\A r \in Reqs :
            (req[r].pc # "failed" /\ req'[r].pc = "failed") =>
                ledger' = ledger /\ ver' = ver]_vars
    /\ [](\A r \in Reqs :
            /\ req[r].pc = "failed" => ~Committed(r)
            /\ (Answered(r) /\ Started(r) /\ ~Committed(r)) =>
                   /\ req[r].status = 500
                   /\ req[r].body = "Server Error during reward transaction."
            /\ req[r].status = 500 => ~Committed(r))
    /\ [](\A u \in Users :
            /\ Points(u) = InitPoints(u)
                           + SumRewards({r \in Reqs : StartedFor(r, u) /\ req[r].status # 500
                                                      /\ req[r].pc # "failed" /\ Committed(r)})
            /\ ledger[u].exists =>
                   \/ initLedger[u].exists
                   \/ \E r \in Reqs : StartedFor(r, u) /\ req[r].status # 500 /\ Committed(r))

\* a postback whose closure had staged the creation of u1 was answered 500
\* and u1 has no profile
C10_Witness ==
    \E r \in Reqs :
        /\ req[r].status = 500 /\ req[r].attempts >= 1 /\ req[r].sawAbsent
        /\ StartedFor(r, "u1")
        /\ ~ledger["u1"].exists

----------------------------------------------------------------------------
\* C11. Additive credit only: no step removes an existing profile or lowers
\* its points; a step that changes an existing profile is the commit of one
\* accepted request for that user and raises points by that request's reward,
\* which is positive; points is always a non-negative integer.
C11_AdditiveCreditOnly ==
    /\ [][\A u \in Users :
            (ledger[u].exists /\ ledger'[u] # ledger[u]) =>
                /\ ledger'[u].exists
                /\ \E r \in Reqs :
                       /\ CommitStep(r) /\ StartedFor(r, u)
                       /\ req[r].rewardPoints.val > 0
                       /\ ledger'[u].points = ledger[u].points + req[r].rewardPoints.val]_vars
    /\ [](\A u \in Users : ledger[u].exists => ledger[u].points \in Nat)

\* the existing u1 (5 points) after one credit of 1 and one of 2
C11_Witness ==
    /\ initLedger["u1"].exists
    /\ ledger["u1"].points = 8
    /\ \A r \in Reqs : req[r].branch = "update"

\* the four responses of the endpoint
Responses ==
    {<<403, "Invalid secret.">>, <<400, "Invalid parameters.">>,
     <<200, "Reward processed.">>, <<500, "Server Error during reward transaction.">>}

\* C12. Every request is answered exactly once, with one of the four
\* responses: no request is answered twice, and a request whose handler has
\* nothing left to run has been answered, by one of the four.
C12_AnsweredExactlyOnce ==
    \A r \in Reqs :
        /\ req[r].sent <= 1
        /\ req[r].sent = 1 => <<req[r].status, req[r].body>> \in Responses
        /\ req[r].pc \in {"done", "crashed"} => req[r].sent = 1

Logged(r, entry) == \E i \in 1..Len(req[r].log) : req[r].log[i] = entry

\* C13. Every rejection response comes with a log record: a 403 with the
\* warning, a 400 with some log entry, a 500 with the logged error.
C13_RejectionsAreLogged ==
    \A r \in Reqs :
        /\ req[r].status = 403 => Logged(r, "warn")
        /\ req[r].status = 400 => req[r].log # <<>>
        /\ req[r].status = 500 => Logged(r, "error") \/ Logged(r, "unhandled")

\* C14. No deduplication: when two requests carrying the same user_id,
\* secret and points have both been answered 200, the balance of that user
\* stands at least twice the reward above its initial value.
C14_RepeatCreditedTwice ==
    \A r, s \in Reqs :
        (/\ r # s
         /\ req[r].query = req[s].query
         /\ req[r].status = 200 /\ req[s].status = 200) =>
            Points(UserOf(r)) >= InitPoints(UserOf(r)) + 2 * req[r].rewardPoints.val

C14_Witness ==
    /\ req[1].query = req[2].query
    /\ req[1].status = 200 /\ req[2].status = 200
    /\ req[1].rewardPoints.val = 2
    /\ Points("u1") = InitPoints("u1") + 4

\* the requests whose transaction committed on the profile of u
CommittedFor(u) == {r \in Reqs : Committed(r) /\ UserOf(r) = u}

\* C15. Postbacks for different users are independent: the record of a user
\* changes only in the commit of a request addressed to that user, and that
\* commit leaves every other record alone; at every moment the record of a
\* user is determined by its initial value and the committed requests
\* addressed to that user, whatever the other users' requests did.
C15_UsersIndependent ==
    /\ [][\A u \in Users :
            ledger'[u] # ledger[u] =>
                \E r \in Reqs :
                    /\ CommitStep(r) /\ StartedFor(r, u)
                    /\ \A v \in Users \ {u} : ledger'[v] = ledger[v]]_vars
    /\ [](\A u \in Users :
            IF CommittedFor(u) = {}
            THEN ledger[u] = initLedger[u]
            ELSE /\ ledger[u].exists
                 /\ Points(u) = InitPoints(u) + SumRewards(CommittedFor(u))
                 /\ initLedger[u].exists =>
                        ledger[u] = [initLedger[u] EXCEPT !.points = @ + SumRewards(CommittedFor(u))])

C15_Witness ==
    /\ Committed(1) /\ UserOf(1) = "u2"
    /\ Committed(2) /\ UserOf(2) = "u1"
    /\ ledger["u1"] # initLedger["u1"]
    /\ ledger["u2"] # initLedger["u2"]

\* some value among the four is absent from the environment
SomeValueAbsent == \E k \in EnvNames : Falsy(boot.env[k])

\* a value the started program needs is absent: any of the four for the
\* postback server, the bot token or the mini-app URL for the bot-only program
RequiredValueAbsent ==
    \/ Falsy(boot.env["BOT_TOKEN"])
    \/ Falsy(boot.env["WEB_APP_URL"])
    \/ boot.program = "server" /\ SomeValueAbsent

C17_SecretCheckFirst ==
    \A r \in Reqs :
        /\ (req[r].pc # "new" /\ req[r].query.secret # REWARD_ENDPOINT_SECRET) =>
                /\ req[r].pc = "done"
                /\ req[r].status = 403 /\ req[r].body = "Invalid secret."
        /\ req[r].status = 400 => req[r].query.secret = REWARD_ENDPOINT_SECRET

C17_Witness ==
    /\ req[1].status = 403
    /\ req[1].query = Query(Str("wrong"), Undefined, Str(<<"-", "1">>))

\* the requests for u that have been answered 200
Acknowledged(u) ==
    {r \in Reqs : req[r].status = 200 /\ req[r].query.user_id = Str(u)}

\* C18. Commit precedes acknowledgement: a request answered 200 'Reward
\* processed.' has a committed transaction, and the rewards of all
\* acknowledged requests of a user are in that user's balance; a request
\* whose transaction committed is never answered 500.
C18_CommitBeforeAck ==
    /\ \A r \in Reqs :
            /\ req[r].status = 200 => Committed(r) /\ ledger[UserOf(r)].exists
            /\ Committed(r) => req[r].status # 500
    /\ \A u \in Users : Points(u) >= InitPoints(u) + SumRewards(Acknowledged(u))

C18_Witness ==
    /\ req[1].status = 200 /\ req[1].body = "Reward processed."
    /\ req[1].branch = "create"
    /\ req[2].pc = "committed" /\ req[2].status = 0
    /\ UserOf(1) = UserOf(2)
    /\ Points(UserOf(1)) = req[1].rewardPoints.val + req[2].rewardPoints.val

\* the request passed the secret check and the parameter validation
Accepted(r) ==
    /\ req[r].pc # "new"
    /\ SecretOk(req[r].query)
    /\ ParamsOk(req[r].query, req[r].rewardPoints)

\* C19. The handler never retries: a request it has accepted has called
\* runTransaction exactly once, a request it has rejected with 403 or 400
\* has not called it, and no request calls it twice.
C19_OneTransactionCall ==
    \A r \in Reqs :
        /\ req[r].calls <= 1
        /\ Accepted(r) => req[r].calls = 1
        /\ req[r].status \in {403, 400} => req[r].calls = 0

TypeOK ==
    /\ boot.pc \in {"start", "configured", "launched", "listening", "exited"}
    /\ \A u \in Users : ledger[u] = Absent \/ ledger[u].points \in Nat
    /\ \A r \in Reqs : req[r].pc \in {"new", "txn", "commit", "committed", "failed", "done", "crashed"}

====
